---- MODULE Spec2Model ----
(***************************************************************************)
(* Search orchestration of the Berlin housing scraper.                     *)
(*                                                                         *)
(* main.py: BerlinHousingApp with its run modes (web, worker, scheduler)   *)
(* and the shared results/ directory; run.py: search_apartments and the    *)
(* schedule action.  One process runs in one mode; in web mode the Flask   *)
(* development server handles every request on its own thread, so the      *)
(* handlers interleave at every access to self.config and to               *)
(* results/latest.json.                                                    *)
(***************************************************************************)
EXTENDS Integers, Sequences, FiniteSets, TLC

\* ---------------------------------------------------------------- bounds
NumThreads == 2       \* request threads of the web server
MaxCycles == 2        \* search cycles started in one run of the process
MaxListings == 2      \* listings one provider fetch returns at most

MaxHour == 24         \* largest SCHEDULE_START_HOUR and SCHEDULE_END_HOUR
MaxInterval == 3      \* largest SCHEDULE_INTERVAL

\* ------------------------------------------------------ program constants
DEFAULT_SCHEDULE_INTERVAL == 2
DEFAULT_SCHEDULE_START_HOUR == 8
DEFAULT_SCHEDULE_END_HOUR == 22
DEFAULT_MAX_RENT == 1200
DEFAULT_MIN_ROOMS == 2
WORKER_SLEEP == 7200
WORKER_ERROR_SLEEP == 300

Threads == 1..NumThreads
Main == 1
Modes == {"web", "worker", "scheduler", "once", "schedule", "search"}
Identities == {"a", "b"}
NoArg == 0
RentArgs == {NoArg, 900}
RoomArgs == {NoArg, 3}
FetchSeconds == {1, 30, 2400}

\* Listing sequences a provider fetch can return: no identity twice, at most
\* MaxListings long.
RECURSIVE SeqsUpTo(_)
SeqsUpTo(n) ==
  IF n = 0 THEN {<<>>}
  ELSE LET shorter == SeqsUpTo(n - 1)
       IN shorter \cup
          {Append(s, x) : s \in {q \in shorter : Len(q) = n - 1},
                          x \in Identities}

ResultSets ==
  {s \in SeqsUpTo(MaxListings) :
     \A i, j \in 1..Len(s) : i # j => s[i] # s[j]}

\* ------------------------------------------------------------ json, files
\* json.dump writes the list as an opening bracket, one chunk per listing and
\* a closing bracket; the chunks reach the file at a buffer flush or at close.
json_dump(results) == <<"[">> \o results \o <<"]">>

NUL == "nul"

WellFormed(data) ==
  /\ Len(data) >= 2
  /\ data[1] = "["
  /\ data[Len(data)] = "]"
  /\ \A i \in 2..(Len(data) - 1) : data[i] \in Identities

\* json.load: the parsed list, or JSONDecodeError on anything but one
\* complete document.
json_load(data) ==
  IF WellFormed(data)
  THEN [ok |-> TRUE, value |-> SubSeq(data, 2, Len(data) - 1)]
  ELSE [ok |-> FALSE, value |-> <<>>]

\* write(2) of toks at offset pos of a file holding data: bytes past the end
\* are created, a gap before pos reads as NUL, the tail after the written
\* region stays.
Max(x, y) == IF x >= y THEN x ELSE y

WriteAt(data, pos, toks) ==
  [i \in 1..Max(Len(data), pos + Len(toks)) |->
     IF i <= pos
     THEN (IF i <= Len(data) THEN data[i] ELSE NUL)
     ELSE IF i <= pos + Len(toks) THEN toks[i - pos] ELSE data[i]]

NoFile == [exists |-> FALSE, data |-> <<>>]

\* ------------------------------------------------- the jobs of schedule
HOUR == 3600
DAY == 86400
TICK == 60
EVERY_HOURS == 2

\* main.py run_scheduler, lines 176-179, in the order of registration.
Jobs == <<"every_2_hours", "at_09", "at_15", "at_21">>

AtHour(j) ==
  CASE j = "at_09" -> 9
    [] j = "at_15" -> 15
    [] j = "at_21" -> 21

\* Clock times, seconds since midnight, at which the process can start.
StartClocks == {7 * HOUR, 7 * HOUR + 1800}

\* The next time of day `at` (seconds since midnight) strictly after clock.
NextAt(clock, at) ==
  LET midnight == clock - (clock % DAY)
  IN IF clock - midnight < at THEN midnight + at ELSE midnight + DAY + at

\* Job._schedule_next_run at clock: the period later for every(2).hours, the
\* next 09:00, 15:00 or 21:00 for the daily jobs.
ScheduleNextRun(j, clock) ==
  IF j = "every_2_hours" THEN clock + EVERY_HOURS * HOUR
  ELSE NextAt(clock, AtHour(j) * HOUR)

\* Job.should_run.
ShouldRun(next, clock, i) == clock >= next[Jobs[i]]

\* sorted(runnable_jobs): by next_run, jobs of equal next_run in the order of
\* registration.
RECURSIVE SortedJobs(_, _)
SortedJobs(next, idx) ==
  IF idx = {} THEN <<>>
  ELSE LET first == CHOOSE i \in idx :
                      \A k \in idx :
                        \/ next[Jobs[i]] < next[Jobs[k]]
                        \/ (next[Jobs[i]] = next[Jobs[k]] /\ i <= k)
       IN <<Jobs[first]>> \o SortedJobs(next, idx \ {first})

\* The jobs run_pending finds due at clock, in the order it runs them.
RunnableJobs(next, clock) ==
  SortedJobs(next, {i \in 1..Len(Jobs) : ShouldRun(next, clock, i)})

\* ------------------------------------------------------------------ state
VARIABLES
  mode,        \* run mode of the process
  alive,       \* the process has not been ended by an uncaught exception
  config,      \* self.config (max_rent, min_rooms), shared by all handlers
  pc,          \* position of each thread
  req,         \* api_search: the handler's locals max_rent, min_rooms
  original,    \* api_search: the handler's local original_config
  args,        \* search: the criteria passed to interface.search_apartments
  results,     \* search: the local results
  outcome,     \* how the thread's last search cycle ended
  wbuf,        \* save_results: chunks of latest.json not yet flushed
  wpos,        \* save_results: file offset of the open latest.json
  snapshots,   \* results/apartments_<timestamp>.json, in order of writing
  latest,      \* results/latest.json
  notified,    \* arguments of the calls of NotificationManager.notify
  enable_notifications,  \* ENABLE_NOTIFICATIONS is 'true'
  cycles,      \* search cycles started so far
  now,         \* wall clock, seconds (since midnight in scheduler mode)
  sleep,       \* run_worker: the argument of the time.sleep in progress
  lastEnd,     \* wall clock when the last search cycle returned
  raised,      \* an exception is propagating out of the thread's search
  next_run,    \* main.py run_scheduler: next_run of each job of schedule
  runnable,    \* schedule.run_pending: the due jobs it has still to run
  exit_status, \* completion status of the process, -1 while it runs
  env,         \* run.py: SCHEDULE_START_HOUR, SCHEDULE_END_HOUR, SCHEDULE_INTERVAL
  hour,        \* run.py run_scheduler: the loop variable of the for loop
  registered   \* run.py run_scheduler: the at-times of the jobs registered

vars ==
  <<mode, alive, config, pc, req, original, args, results, outcome, wbuf,
    wpos, snapshots, latest, notified, enable_notifications,
    cycles, now, sleep, lastEnd, raised, next_run, runnable, exit_status,
    env, hour, registered>>

jobs_vars == <<next_run, runnable>>

reg_vars == <<env, hour, registered>>

StartupConfig == [max_rent |-> DEFAULT_MAX_RENT, min_rooms |-> DEFAULT_MIN_ROOMS]

StartPc(m) ==
  CASE m = "web" -> "idle"
    [] m = "worker" -> "run_worker"
    [] m = "scheduler" -> "run_pending"
    [] m = "schedule" -> "register"
    [] m = "once" -> "run_once"
    [] m = "search" -> "main_search"

\* run.py run_scheduler, lines 181-183, with nothing set in the environment.
DefaultEnv ==
  [start_hour |-> DEFAULT_SCHEDULE_START_HOUR,
   end_hour |-> DEFAULT_SCHEDULE_END_HOUR,
   interval |-> DEFAULT_SCHEDULE_INTERVAL]

InitWith(modes, envs) ==
  /\ mode \in modes
  /\ env \in envs
  /\ hour = env.start_hour
  /\ registered = <<>>
  /\ alive = TRUE
  /\ config = StartupConfig
  /\ pc = [t \in Threads |-> IF mode = "web" \/ t = Main THEN StartPc(mode) ELSE "unused"]
  /\ req = [t \in Threads |-> StartupConfig]
  /\ original = [t \in Threads |-> StartupConfig]
  /\ args = [t \in Threads |-> StartupConfig]
  /\ results = [t \in Threads |-> <<>>]
  /\ outcome = [t \in Threads |-> "none"]
  /\ wbuf = [t \in Threads |-> <<>>]
  /\ wpos = [t \in Threads |-> 0]
  /\ snapshots = <<>>
  /\ latest = NoFile
  /\ notified = <<>>
  /\ enable_notifications \in
       (IF mode \in {"schedule", "search"} THEN BOOLEAN ELSE {FALSE})
  /\ cycles = 0
  /\ now \in (IF mode = "scheduler" THEN StartClocks ELSE {0})
  /\ sleep = 0
  /\ lastEnd = 0
  /\ raised = [t \in Threads |-> FALSE]
  /\ next_run = [j \in {Jobs[i] : i \in 1..Len(Jobs)} |-> ScheduleNextRun(j, now)]
  /\ runnable = <<>>
  /\ exit_status = -1

InitIn(modes) == InitWith(modes, {DefaultEnv})

\* BerlinHousingApp.run and run.py main: the process starts in one mode.
Init == InitIn(Modes)

\* The modes with one thread of control: worker, scheduler, schedule.
LoopModes == {"worker", "scheduler", "schedule"}

InitLoops == InitIn(LoopModes)


\* ------------------------------------------------------------- main.py
Failed == {"fetch_error", "store_error"}

SearchPcs ==
  {"s_min_rooms", "s_max_rent", "s_fetch", "s_save", "s_latest_open",
   "s_latest_write", "s_except"}

\* The thread is inside BerlinHousingApp.search or search_apartments.
InCycle(t) == pc[t] \in SearchPcs \cup {"sa_fetch", "sa_save", "sa_notify"}

\* Where search returns to.
AfterSearch ==
  CASE mode = "web" -> "as_restore"
    [] mode = "worker" -> "w_after"
    [] mode = "once" -> "once_after"
    [] OTHER -> "sched_after"

\* The wall clock is read by run_worker and by the jobs of schedule.
Elapse(d) == IF mode \in {"worker", "scheduler"} THEN now + d ELSE now

\* api_search, line 126: max_rent from the query string, default self.config.
api_search_max_rent(t, mr) ==
  /\ mode = "web" /\ pc[t] = "idle" /\ cycles < MaxCycles
  /\ cycles' = cycles + 1
  /\ req' = [req EXCEPT ![t].max_rent =
               IF mr = NoArg THEN config.max_rent ELSE mr]
  /\ pc' = [pc EXCEPT ![t] = "as_min_rooms"]
  /\ UNCHANGED <<reg_vars, exit_status, jobs_vars, mode, alive, config, original, args, results, outcome, wbuf,
                 wpos, snapshots, latest, notified,
                 enable_notifications, now, sleep, lastEnd, raised>>

\* api_search, line 127.
api_search_min_rooms(t, mn) ==
  /\ pc[t] = "as_min_rooms"
  /\ req' = [req EXCEPT ![t].min_rooms =
               IF mn = NoArg THEN config.min_rooms ELSE mn]
  /\ pc' = [pc EXCEPT ![t] = "as_copy"]
  /\ UNCHANGED <<reg_vars, exit_status, jobs_vars, mode, alive, config, original, args, results, outcome, wbuf,
                 wpos, snapshots, latest, notified,
                 enable_notifications, cycles, now, sleep, lastEnd, raised>>

\* api_search, line 130: original_config = self.config.copy().
api_search_copy(t) ==
  /\ pc[t] = "as_copy"
  /\ original' = [original EXCEPT ![t] = config]
  /\ pc' = [pc EXCEPT ![t] = "as_set_max_rent"]
  /\ UNCHANGED <<reg_vars, exit_status, jobs_vars, mode, alive, config, req, args, results, outcome, wbuf,
                 wpos, snapshots, latest, notified,
                 enable_notifications, cycles, now, sleep, lastEnd, raised>>

\* api_search, line 131.
api_search_set_max_rent(t) ==
  /\ pc[t] = "as_set_max_rent"
  /\ config' = [config EXCEPT !.max_rent = req[t].max_rent]
  /\ pc' = [pc EXCEPT ![t] = "as_set_min_rooms"]
  /\ UNCHANGED <<reg_vars, exit_status, jobs_vars, mode, alive, req, original, args, results, outcome, wbuf,
                 wpos, snapshots, latest, notified,
                 enable_notifications, cycles, now, sleep, lastEnd, raised>>

\* api_search, lines 132 and 134: the second override, then the call of search.
api_search_set_min_rooms(t) ==
  /\ pc[t] = "as_set_min_rooms"
  /\ config' = [config EXCEPT !.min_rooms = req[t].min_rooms]
  /\ pc' = [pc EXCEPT ![t] = "search"]
  /\ UNCHANGED <<reg_vars, exit_status, jobs_vars, mode, alive, req, original, args, results, outcome, wbuf,
                 wpos, snapshots, latest, notified,
                 enable_notifications, cycles, now, sleep, lastEnd, raised>>

\* search, line 67: the cycle starts.
search_begin(t) ==
  /\ pc[t] = "search"
  /\ outcome' = [outcome EXCEPT ![t] = "running"]
  /\ pc' = [pc EXCEPT ![t] = "s_min_rooms"]
  /\ UNCHANGED <<reg_vars, exit_status, jobs_vars, mode, alive, config, req, original, args, results, wbuf,
                 wpos, snapshots, latest, notified,
                 enable_notifications, cycles, now, sleep, lastEnd, raised>>

\* search, line 71: the argument min_rooms is read from self.config.
search_min_rooms(t) ==
  /\ pc[t] = "s_min_rooms"
  /\ args' = [args EXCEPT ![t].min_rooms = config.min_rooms]
  /\ pc' = [pc EXCEPT ![t] = "s_max_rent"]
  /\ UNCHANGED <<reg_vars, exit_status, jobs_vars, mode, alive, config, req, original, results, outcome, wbuf,
                 wpos, snapshots, latest, notified,
                 enable_notifications, cycles, now, sleep, lastEnd, raised>>

\* search, line 73: the argument max_rent is read from self.config.
search_max_rent(t) ==
  /\ pc[t] = "s_max_rent"
  /\ args' = [args EXCEPT ![t].max_rent = config.max_rent]
  /\ pc' = [pc EXCEPT ![t] = "s_fetch"]
  /\ UNCHANGED <<reg_vars, exit_status, jobs_vars, mode, alive, config, req, original, results, outcome, wbuf,
                 wpos, snapshots, latest, notified,
                 enable_notifications, cycles, now, sleep, lastEnd, raised>>

\* search, lines 70-80: interface.search_apartments returns r after d seconds.
search_fetch(t, r, d) ==
  /\ pc[t] = "s_fetch"
  /\ results' = [results EXCEPT ![t] = r]
  /\ now' = Elapse(d)
  /\ pc' = [pc EXCEPT ![t] = "s_save"]
  /\ UNCHANGED <<reg_vars, exit_status, jobs_vars, mode, alive, config, req, original, args, outcome, wbuf,
                 wpos, snapshots, latest, notified,
                 enable_notifications, cycles, sleep, lastEnd, raised>>

\* search, lines 70-78 and 87: interface.search_apartments raises after d
\* seconds (adapter error or timeout).
search_fetch_raise(t, d) ==
  /\ pc[t] = "s_fetch"
  /\ outcome' = [outcome EXCEPT ![t] = "fetch_error"]
  /\ now' = Elapse(d)
  /\ pc' = [pc EXCEPT ![t] = "s_except"]
  /\ UNCHANGED <<reg_vars, exit_status, jobs_vars, mode, alive, config, req, original, args, results, wbuf,
                 wpos, snapshots, latest, notified,
                 enable_notifications, cycles, sleep, lastEnd, raised>>

\* save_results, lines 93-101: the timestamped snapshot.
save_results_snapshot(t) ==
  /\ pc[t] = "s_save"
  /\ snapshots' = Append(snapshots, results[t])
  /\ pc' = [pc EXCEPT ![t] = "s_latest_open"]
  /\ UNCHANGED <<reg_vars, exit_status, jobs_vars, mode, alive, config, req, original, args, results, outcome,
                 wbuf, wpos, latest, notified,
                 enable_notifications, cycles, now, sleep, lastEnd, raised>>

\* save_results, lines 98 and 104: open raises OSError.
save_results_raise(t) ==
  /\ pc[t] \in {"s_save", "s_latest_open"}
  /\ outcome' = [outcome EXCEPT ![t] = "store_error"]
  /\ pc' = [pc EXCEPT ![t] = "s_except"]
  /\ UNCHANGED <<reg_vars, exit_status, jobs_vars, mode, alive, config, req, original, args, results, wbuf,
                 wpos, snapshots, latest, notified,
                 enable_notifications, cycles, now, sleep, lastEnd, raised>>

\* save_results, line 104: open('results/latest.json', 'w') creates or
\* truncates the file; line 105 fills the write buffer.
save_results_open_latest(t) ==
  /\ pc[t] = "s_latest_open"
  /\ latest' = [exists |-> TRUE, data |-> <<>>]
  /\ wbuf' = [wbuf EXCEPT ![t] = json_dump(results[t])]
  /\ wpos' = [wpos EXCEPT ![t] = 0]
  /\ pc' = [pc EXCEPT ![t] = "s_latest_write"]
  /\ UNCHANGED <<reg_vars, exit_status, jobs_vars, mode, alive, config, req, original, args, results, outcome,
                 snapshots, notified, enable_notifications, cycles,
                 now, sleep, lastEnd, raised>>

\* save_results, line 105: the buffer is flushed after k chunks.
save_results_flush_latest(t, k) ==
  /\ pc[t] = "s_latest_write"
  /\ k \in 1..(Len(wbuf[t]) - 1)
  /\ latest' = [latest EXCEPT !.data = WriteAt(@, wpos[t], SubSeq(wbuf[t], 1, k))]
  /\ wbuf' = [wbuf EXCEPT ![t] = SubSeq(@, k + 1, Len(@))]
  /\ wpos' = [wpos EXCEPT ![t] = @ + k]
  /\ UNCHANGED <<reg_vars, exit_status, jobs_vars, mode, alive, config, pc, req, original, args, results,
                 outcome, snapshots, notified,
                 enable_notifications, cycles, now, sleep, lastEnd, raised>>

\* save_results, line 105 and search, line 85: the file is closed, what is
\* left of the buffer is written, and search returns the results.
save_results_close_latest(t) ==
  /\ pc[t] = "s_latest_write"
  /\ latest' = [latest EXCEPT !.data = WriteAt(@, wpos[t], wbuf[t])]
  /\ wbuf' = [wbuf EXCEPT ![t] = <<>>]
  /\ wpos' = [wpos EXCEPT ![t] = 0]
  /\ outcome' = [outcome EXCEPT ![t] = "ok"]
  /\ lastEnd' = now
  /\ pc' = [pc EXCEPT ![t] = AfterSearch]
  /\ UNCHANGED <<reg_vars, exit_status, jobs_vars, mode, alive, config, req, original, args, results,
                 snapshots, notified, enable_notifications, cycles,
                 now, sleep, raised>>


\* Variants of the handler of lines 87-89 that a slip would produce: the
\* exception is raised again after logging; the handler saves the empty list.
search_except_reraise(t) ==
  /\ pc[t] = "s_except"
  /\ raised' = [raised EXCEPT ![t] = TRUE]
  /\ lastEnd' = now
  /\ pc' = [pc EXCEPT ![t] = AfterSearch]
  /\ UNCHANGED <<reg_vars, exit_status, jobs_vars, mode, alive, config, req, original, args, results, outcome,
                 wbuf, wpos, snapshots, latest, notified,
                 enable_notifications, cycles, now, sleep>>

search_except_saves(t) ==
  /\ pc[t] = "s_except"
  /\ results' = [results EXCEPT ![t] = <<>>]
  /\ pc' = [pc EXCEPT ![t] = "s_save"]
  /\ UNCHANGED <<reg_vars, exit_status, jobs_vars, mode, alive, config, req, original, args, outcome, wbuf,
                 wpos, snapshots, latest, notified, enable_notifications,
                 cycles, now, sleep, lastEnd, raised>>

\* search, lines 87-89: every Exception raised in the try block is logged and
\* search returns the empty list.
search_except(t) ==
  /\ pc[t] = "s_except"
  /\ results' = [results EXCEPT ![t] = <<>>]
  /\ lastEnd' = now
  /\ pc' = [pc EXCEPT ![t] = AfterSearch]
  /\ UNCHANGED <<reg_vars, exit_status, jobs_vars, mode, alive, config, req, original, args, outcome, wbuf,
                 wpos, snapshots, latest, notified,
                 enable_notifications, cycles, now, sleep, raised>>

\* api_search, lines 134-139: search has returned; the saved copy is put back,
\* the results are the response and the handler's locals are gone.  An exception out of search skips the
\* restore and is answered with HTTP 500.
api_search_response(t) ==
  IF raised[t] THEN [kind |-> "error", body |-> <<>>]
  ELSE [kind |-> "ok", body |-> results[t]]

api_search_restore(t) ==
  /\ pc[t] = "as_restore"
  /\ config' = IF raised[t] THEN config ELSE original[t]
  /\ raised' = [raised EXCEPT ![t] = FALSE]
  /\ req' = [req EXCEPT ![t] = StartupConfig]
  /\ original' = [original EXCEPT ![t] = StartupConfig]
  /\ args' = [args EXCEPT ![t] = StartupConfig]
  /\ results' = [results EXCEPT ![t] = <<>>]
  /\ outcome' = [outcome EXCEPT ![t] = "none"]
  /\ pc' = [pc EXCEPT ![t] = "idle"]
  /\ UNCHANGED <<reg_vars, exit_status, jobs_vars, mode, alive, wbuf, wpos, snapshots, latest, notified,
                 enable_notifications, cycles, now, sleep, lastEnd>>

\* api_latest, lines 141-147: the response to a GET /api/latest served now.
\* FileNotFoundError is answered with the empty list; a JSONDecodeError of
\* json.load is not caught (HTTP 500).
api_latest ==
  IF ~latest.exists THEN [kind |-> "ok", body |-> <<>>]
  ELSE IF json_load(latest.data).ok
       THEN [kind |-> "ok", body |-> json_load(latest.data).value]
       ELSE [kind |-> "error", body |-> <<>>]

\* run_worker, lines 157-159: the loop calls search.
run_worker_search(t) ==
  /\ mode = "worker" /\ pc[t] = "run_worker" /\ cycles < MaxCycles
  /\ cycles' = cycles + 1
  /\ pc' = [pc EXCEPT ![t] = "search"]
  /\ UNCHANGED <<reg_vars, exit_status, jobs_vars, mode, alive, config, req, original, args, results, outcome,
                 wbuf, wpos, snapshots, latest, notified,
                 enable_notifications, now, sleep, lastEnd, raised>>

\* run_worker, lines 161 and 165-167: time.sleep(7200) after search returned,
\* time.sleep(300) in the handler of an Exception out of search.
run_worker_sleep(t) ==
  /\ pc[t] = "w_after"
  /\ sleep' = IF raised[t] THEN WORKER_ERROR_SLEEP ELSE WORKER_SLEEP
  /\ raised' = [raised EXCEPT ![t] = FALSE]
  /\ pc' = [pc EXCEPT ![t] = "w_sleeping"]
  /\ UNCHANGED <<reg_vars, exit_status, jobs_vars, mode, alive, config, req, original, args, results, outcome,
                 wbuf, wpos, snapshots, latest, notified,
                 enable_notifications, cycles, now, lastEnd>>

\* run_worker, line 157: the sleep is over, the loop goes round.
run_worker_wake(t) ==
  /\ pc[t] = "w_sleeping"
  /\ now' = now + sleep
  /\ pc' = [pc EXCEPT ![t] = "run_worker"]
  /\ UNCHANGED <<reg_vars, exit_status, jobs_vars, mode, alive, config, req, original, args, results, outcome,
                 wbuf, wpos, snapshots, latest, notified,
                 enable_notifications, cycles, sleep, lastEnd, raised>>

\* run_scheduler, line 185: schedule.run_pending() collects the jobs that are
\* due now, sorted.
run_scheduler_run_pending(t) ==
  /\ mode = "scheduler" /\ pc[t] = "run_pending"
  /\ runnable' = RunnableJobs(next_run, now)
  /\ pc' = [pc EXCEPT ![t] = "run_jobs"]
  /\ UNCHANGED <<reg_vars, exit_status, next_run, mode, alive, config, req, original, args, results,
                 outcome, wbuf, wpos, snapshots, latest, notified,
                 enable_notifications, cycles, now, sleep, lastEnd, raised>>

\* schedule.run_pending: the next of the collected jobs runs self.search.
run_scheduler_run_job(t) ==
  /\ mode = "scheduler" /\ pc[t] = "run_jobs"
  /\ runnable # <<>> /\ cycles < MaxCycles
  /\ cycles' = cycles + 1
  /\ pc' = [pc EXCEPT ![t] = "search"]
  /\ UNCHANGED <<reg_vars, exit_status, jobs_vars, mode, alive, config, req, original, args, results,
                 outcome, wbuf, wpos, snapshots, latest, notified,
                 enable_notifications, now, sleep, lastEnd, raised>>

\* run_scheduler, lines 183-189: the job has returned and is scheduled again
\* from now; only KeyboardInterrupt is handled, any other exception leaves
\* the loop and ends the process.
run_scheduler_job_done(t) ==
  /\ mode = "scheduler" /\ pc[t] = "sched_after"
  /\ alive' = ~raised[t]
  /\ next_run' = IF raised[t] THEN next_run
                 ELSE [next_run EXCEPT ![Head(runnable)] =
                         ScheduleNextRun(Head(runnable), now)]
  /\ runnable' = IF raised[t] THEN runnable ELSE Tail(runnable)
  /\ pc' = [pc EXCEPT ![t] = IF raised[t] THEN "exited" ELSE "run_jobs"]
  /\ UNCHANGED <<reg_vars, exit_status, mode, config, req, original, args, results,
                 outcome, wbuf, wpos, snapshots, latest, notified,
                 enable_notifications, cycles, now, sleep, lastEnd, raised>>

\* The sleeps of TICK seconds until some job is due: rounds of the loop in
\* which run_pending finds nothing to run change nothing but the clock.
SleepTicks ==
  LET soonest == CHOOSE x \in {next_run[Jobs[i]] : i \in 1..Len(Jobs)} :
                   \A i \in 1..Len(Jobs) : x <= next_run[Jobs[i]]
  IN IF soonest <= now + TICK THEN 1
     ELSE (soonest - now + TICK - 1) \div TICK

\* run_scheduler, lines 183-186: every due job has run; time.sleep(60), round
\* after round, until run_pending finds a job due.
run_scheduler_sleep(t) ==
  /\ mode = "scheduler" /\ pc[t] = "run_jobs" /\ runnable = <<>>
  /\ now' = now + SleepTicks * TICK
  /\ pc' = [pc EXCEPT ![t] = "run_pending"]
  /\ UNCHANGED <<reg_vars, exit_status, jobs_vars, mode, alive, config, req, original, args, results,
                 outcome, wbuf, wpos, snapshots, latest, notified,
                 enable_notifications, cycles, sleep, lastEnd, raised>>

\* run_once, lines 193-194: the single search.
run_once_search(t) ==
  /\ mode = "once" /\ pc[t] = "run_once" /\ cycles < MaxCycles
  /\ cycles' = cycles + 1
  /\ pc' = [pc EXCEPT ![t] = "search"]
  /\ UNCHANGED <<reg_vars, exit_status, jobs_vars, mode, alive, config, req, original,
                 args, results, outcome, wbuf, wpos, snapshots, latest,
                 notified, enable_notifications, now, sleep, lastEnd, raised>>

\* run_once, lines 195-206, and main: the results are printed, run_once and
\* main return and the interpreter exits with status 0; an exception out of
\* search would end it with status 1.
run_once_exit(t) ==
  /\ mode = "once" /\ pc[t] = "once_after"
  /\ exit_status' = IF raised[t] THEN 1 ELSE 0
  /\ alive' = ~raised[t]
  /\ pc' = [pc EXCEPT ![t] = "exited"]
  /\ UNCHANGED <<reg_vars, jobs_vars, mode, config, req, original, args, results,
                 outcome, wbuf, wpos, snapshots, latest, notified,
                 enable_notifications, cycles, now, sleep, lastEnd, raised>>

\* --------------------------------------------------------------- run.py
\* Where search_apartments returns, or raises, to.
AfterSearchApartments ==
  IF mode = "search" THEN "main_after" ELSE "sched_after"

\* main, lines 215-216: the action search calls search_apartments.
run_py_main_search(t) ==
  /\ mode = "search" /\ pc[t] = "main_search" /\ cycles < MaxCycles
  /\ cycles' = cycles + 1
  /\ outcome' = [outcome EXCEPT ![t] = "running"]
  /\ pc' = [pc EXCEPT ![t] = "sa_fetch"]
  /\ UNCHANGED <<reg_vars, exit_status, jobs_vars, mode, alive, config, req, original,
                 args, results, wbuf, wpos, snapshots, latest, notified,
                 enable_notifications, now, sleep, lastEnd, raised>>

\* main, lines 216-217: the count is printed and the process ends with status
\* 0; an exception out of search_apartments is not handled and ends it with
\* a traceback and status 1.
run_py_main_exit(t) ==
  /\ mode = "search" /\ pc[t] = "main_after"
  /\ exit_status' = IF raised[t] THEN 1 ELSE 0
  /\ alive' = ~raised[t]
  /\ pc' = [pc EXCEPT ![t] = "exited"]
  /\ UNCHANGED <<reg_vars, jobs_vars, mode, config, req, original, args, results,
                 outcome, wbuf, wpos, snapshots, latest, notified,
                 enable_notifications, cycles, now, sleep, lastEnd, raised>>

\* f"{hour:02d}:00" and the hour schedule reads back from it.
FormatHour(h) == <<h \div 10, h % 10>>

ParseHour(at) == at[1] * 10 + at[2]

\* A for loop that also takes the stop value: `range(start_hour, end_hour + 1,
\* interval)`.
run_py_scheduler_register_inclusive(t) ==
  /\ mode = "schedule" /\ pc[t] = "register"
  /\ hour <= env.end_hour
  /\ registered' = Append(registered, FormatHour(hour))
  /\ hour' = hour + env.interval
  /\ UNCHANGED <<env, exit_status, jobs_vars, mode, alive, config, pc, req,
                 original, args, results, outcome, wbuf, wpos, snapshots,
                 latest, notified, enable_notifications, cycles, now, sleep,
                 lastEnd, raised>>

\* run_scheduler, lines 186-187: one round of the for loop over
\* range(start_hour, end_hour, interval) registers a daily job at hour:00.
run_py_scheduler_register(t) ==
  /\ mode = "schedule" /\ pc[t] = "register"
  /\ hour < env.end_hour
  /\ registered' = Append(registered, FormatHour(hour))
  /\ hour' = hour + env.interval
  /\ UNCHANGED <<env, exit_status, jobs_vars, mode, alive, config, pc, req,
                 original, args, results, outcome, wbuf, wpos, snapshots,
                 latest, notified, enable_notifications, cycles, now, sleep,
                 lastEnd, raised>>

\* run_scheduler, lines 186-191: the range is exhausted; the loop of
\* run_pending starts.
run_py_scheduler_registered(t) ==
  /\ mode = "schedule" /\ pc[t] = "register"
  /\ ~(hour < env.end_hour)
  /\ pc' = [pc EXCEPT ![t] = "run_pending"]
  /\ UNCHANGED <<reg_vars, exit_status, jobs_vars, mode, alive, config, req,
                 original, args, results, outcome, wbuf, wpos, snapshots,
                 latest, notified, enable_notifications, cycles, now, sleep,
                 lastEnd, raised>>

\* run_scheduler, lines 191-192: schedule.run_pending() runs search_apartments
\* when a job is due.
run_py_scheduler_run_pending(t, due) ==
  /\ mode = "schedule" /\ pc[t] = "run_pending"
  /\ due => registered # <<>>
  /\ due => cycles < MaxCycles
  /\ cycles' = IF due THEN cycles + 1 ELSE cycles
  /\ outcome' = [outcome EXCEPT ![t] = IF due THEN "running" ELSE @]
  /\ pc' = [pc EXCEPT ![t] = IF due THEN "sa_fetch" ELSE "sched_sleep"]
  /\ UNCHANGED <<reg_vars, exit_status, jobs_vars, mode, alive, config, req, original, args, results, wbuf,
                 wpos, snapshots, latest, notified,
                 enable_notifications, now, sleep, lastEnd, raised>>

\* search_apartments, lines 61-76: the criteria are loaded from the
\* environment and the provider returns r.
search_apartments_fetch(t, r) ==
  /\ pc[t] = "sa_fetch"
  /\ args' = [args EXCEPT ![t] = StartupConfig]
  /\ results' = [results EXCEPT ![t] = r]
  /\ pc' = [pc EXCEPT ![t] = "sa_save"]
  /\ UNCHANGED <<reg_vars, exit_status, jobs_vars, mode, alive, config, req, original, outcome, wbuf, wpos,
                 snapshots, latest, notified, enable_notifications,
                 cycles, now, sleep, lastEnd, raised>>

\* search_apartments, lines 66-74: the provider raises; nothing in
\* search_apartments handles it.
search_apartments_fetch_raise(t) ==
  /\ pc[t] = "sa_fetch"
  /\ outcome' = [outcome EXCEPT ![t] = "fetch_error"]
  /\ raised' = [raised EXCEPT ![t] = TRUE]
  /\ lastEnd' = now
  /\ pc' = [pc EXCEPT ![t] = AfterSearchApartments]
  /\ UNCHANGED <<reg_vars, exit_status, jobs_vars, mode, alive, config, req, original, args, results, wbuf,
                 wpos, snapshots, latest, notified,
                 enable_notifications, cycles, now, sleep>>

\* search_apartments, lines 78-94: the timestamped JSON snapshot and the HTML
\* report; results/latest.json is not written.
search_apartments_save(t) ==
  /\ pc[t] = "sa_save"
  /\ snapshots' = Append(snapshots, results[t])
  /\ pc' = [pc EXCEPT ![t] = "sa_notify"]
  /\ UNCHANGED <<reg_vars, exit_status, jobs_vars, mode, alive, config, req, original, args, results, outcome,
                 wbuf, wpos, latest, notified,
                 enable_notifications, cycles, now, sleep, lastEnd, raised>>

\* search_apartments, lines 81-92: makedirs or open raises OSError.
search_apartments_save_raise(t) ==
  /\ pc[t] = "sa_save"
  /\ outcome' = [outcome EXCEPT ![t] = "store_error"]
  /\ raised' = [raised EXCEPT ![t] = TRUE]
  /\ lastEnd' = now
  /\ pc' = [pc EXCEPT ![t] = AfterSearchApartments]
  /\ UNCHANGED <<reg_vars, exit_status, jobs_vars, mode, alive, config, req, original, args, results, wbuf,
                 wpos, snapshots, latest, notified,
                 enable_notifications, cycles, now, sleep>>

\* search_apartments, lines 96-101: with notifications enabled the whole
\* result list is handed to NotificationManager.notify; then the results are
\* returned.
search_apartments_notify(t) ==
  /\ pc[t] = "sa_notify"
  /\ notified' = IF enable_notifications THEN Append(notified, results[t])
                 ELSE notified
  /\ outcome' = [outcome EXCEPT ![t] = "ok"]
  /\ lastEnd' = now
  /\ pc' = [pc EXCEPT ![t] = AfterSearchApartments]
  /\ UNCHANGED <<reg_vars, exit_status, jobs_vars, mode, alive, config, req, original, args, results, wbuf,
                 wpos, snapshots, latest, enable_notifications,
                 cycles, now, sleep, raised>>

\* NotificationManager.notify (module notifications): the delivery succeeds
\* or raises DeliveryError.
NotificationManager_notify == {"delivered", "DeliveryError"}

\* search_apartments, lines 97-99: notifier.notify raises; the call has been
\* made and nothing handles the exception.
search_apartments_notify_raise(t) ==
  /\ pc[t] = "sa_notify" /\ enable_notifications
  /\ "DeliveryError" \in NotificationManager_notify
  /\ notified' = Append(notified, results[t])
  /\ outcome' = [outcome EXCEPT ![t] = "notify_error"]
  /\ raised' = [raised EXCEPT ![t] = TRUE]
  /\ lastEnd' = now
  /\ pc' = [pc EXCEPT ![t] = AfterSearchApartments]
  /\ UNCHANGED <<reg_vars, exit_status, jobs_vars, mode, alive, config, req, original, args, results, wbuf,
                 wpos, snapshots, latest, enable_notifications,
                 cycles, now, sleep>>

\* run_scheduler, lines 191-193: the job has returned; an exception out of
\* schedule.run_pending() leaves the loop and ends the process.
run_py_scheduler_job_done(t) ==
  /\ mode = "schedule" /\ pc[t] = "sched_after"
  /\ alive' = ~raised[t]
  /\ pc' = [pc EXCEPT ![t] = IF raised[t] THEN "exited" ELSE "sched_sleep"]
  /\ UNCHANGED <<reg_vars, exit_status, jobs_vars, mode, config, req, original, args, results, outcome, wbuf,
                 wpos, snapshots, latest, notified,
                 enable_notifications, cycles, now, sleep, lastEnd, raised>>

\* run_scheduler, line 193: time.sleep(60).
run_py_scheduler_sleep(t) ==
  /\ mode = "schedule" /\ pc[t] = "sched_sleep"
  /\ pc' = [pc EXCEPT ![t] = "run_pending"]
  /\ UNCHANGED <<reg_vars, exit_status, jobs_vars, mode, alive, config, req, original, args, results, outcome,
                 wbuf, wpos, snapshots, latest, notified,
                 enable_notifications, cycles, now, sleep, lastEnd, raised>>

\* ---------------------------------------------------------- specification
Next ==
  \E t \in Threads :
    \/ \E mr \in RentArgs : api_search_max_rent(t, mr)
    \/ \E mn \in RoomArgs : api_search_min_rooms(t, mn)
    \/ api_search_copy(t)
    \/ api_search_set_max_rent(t)
    \/ api_search_set_min_rooms(t)
    \/ search_begin(t)
    \/ search_min_rooms(t)
    \/ search_max_rent(t)
    \/ \E r \in ResultSets, d \in FetchSeconds : search_fetch(t, r, d)
    \/ \E d \in FetchSeconds : search_fetch_raise(t, d)
    \/ save_results_snapshot(t)
    \/ save_results_raise(t)
    \/ save_results_open_latest(t)
    \/ \E k \in 1..(MaxListings + 1) : save_results_flush_latest(t, k)
    \/ save_results_close_latest(t)
    \/ search_except(t)
    \/ api_search_restore(t)
    \/ run_worker_search(t)
    \/ run_worker_sleep(t)
    \/ run_worker_wake(t)
    \/ run_scheduler_run_pending(t)
    \/ run_scheduler_run_job(t)
    \/ run_scheduler_job_done(t)
    \/ run_scheduler_sleep(t)
    \/ \E due \in BOOLEAN : run_py_scheduler_run_pending(t, due)
    \/ \E r \in ResultSets : search_apartments_fetch(t, r)
    \/ search_apartments_fetch_raise(t)
    \/ search_apartments_save(t)
    \/ search_apartments_save_raise(t)
    \/ search_apartments_notify(t)
    \/ search_apartments_notify_raise(t)
    \/ run_py_scheduler_job_done(t)
    \/ run_py_scheduler_sleep(t)
    \/ run_py_scheduler_register(t)
    \/ run_py_scheduler_registered(t)
    \/ run_once_search(t)
    \/ run_once_exit(t)
    \/ run_py_main_search(t)
    \/ run_py_main_exit(t)

Spec == Init /\ [][Next]_vars


\* The loops of worker, scheduler and schedule mode, which run on the main
\* thread alone.
NextLoops ==
  \/ search_begin(Main)
  \/ search_min_rooms(Main)
  \/ search_max_rent(Main)
  \/ \E r \in ResultSets, d \in FetchSeconds : search_fetch(Main, r, d)
  \/ \E d \in FetchSeconds : search_fetch_raise(Main, d)
  \/ save_results_snapshot(Main)
  \/ save_results_raise(Main)
  \/ save_results_open_latest(Main)
  \/ \E k \in 1..(MaxListings + 1) : save_results_flush_latest(Main, k)
  \/ save_results_close_latest(Main)
  \/ search_except(Main)
  \/ run_worker_search(Main)
  \/ run_worker_sleep(Main)
  \/ run_worker_wake(Main)
  \/ run_scheduler_run_pending(Main)
  \/ run_scheduler_run_job(Main)
  \/ run_scheduler_job_done(Main)
  \/ run_scheduler_sleep(Main)
  \/ \E due \in BOOLEAN : run_py_scheduler_run_pending(Main, due)
  \/ \E r \in ResultSets : search_apartments_fetch(Main, r)
  \/ search_apartments_fetch_raise(Main)
  \/ search_apartments_save(Main)
  \/ search_apartments_save_raise(Main)
  \/ search_apartments_notify(Main)
  \/ search_apartments_notify_raise(Main)
  \/ run_py_scheduler_job_done(Main)
  \/ run_py_scheduler_sleep(Main)
  \/ run_py_scheduler_register(Main)
  \/ run_py_scheduler_registered(Main)

SpecLoops == InitLoops /\ [][NextLoops]_vars

\* The registration of run.py's schedule action, for every start hour, end
\* hour and interval within the bounds.
ScheduleEnvs ==
  [start_hour : 0..MaxHour, end_hour : 0..MaxHour, interval : 1..MaxInterval]

InitRegister == InitWith({"schedule"}, ScheduleEnvs)

NextRegister ==
  \/ run_py_scheduler_register(Main)
  \/ run_py_scheduler_registered(Main)

SpecRegister == InitRegister /\ [][NextRegister]_vars

\* ------------------------------------------------------------ properties
Range(s) == {s[i] : i \in 1..Len(s)}

\* C1: over any sequence of search cycles a listing identity is handed to the
\* notification dispatcher at most once (in the cycle of its first
\* appearance); a later appearance is persisted but not delivered again.
C1_NotifiedAtMostOnce ==
  \A x \in Identities :
    Cardinality({i \in 1..Len(notified) : x \in Range(notified[i])}) <= 1

\* C2: at most one search cycle is in flight in the process at any time, in
\* every run mode and under any interleaving of triggers.
C2_AtMostOneCycle == Cardinality({t \in Threads : InCycle(t)}) <= 1

\* C3: a GET /api/latest served at any moment, also in the middle of a
\* cycle's save, is answered with a complete persisted ResultSet (or with the
\* empty list while no record exists), never with an empty, truncated or
\* partially written record.
C3_LatestAllOrNothing ==
  mode = "web" =>
    /\ api_latest.kind = "ok"
    /\ latest.exists => api_latest.body \in Range(snapshots)

\* A search cycle of thread t completes successfully in this step.
CycleCompletes(t) ==
  save_results_close_latest(t) \/ search_apartments_notify(t)

\* C4: when a search cycle completes successfully, of whatever entry point,
\* reading latest returns the listing sequence that cycle produced, element
\* for element and in the same order.
C4_RoundTrip ==
  [][\A t \in Threads :
       CycleCompletes(t) => api_latest' = [kind |-> "ok", body |-> results[t]]]_vars

\* The criteria of the trigger that started the cycle of thread t.
TriggerCriteria(t) == IF mode = "web" THEN req[t] ELSE StartupConfig

\* C5: a cycle searches with exactly the criteria of the trigger that started
\* it (the request's own max_rent and min_rooms, the startup criteria for a
\* scheduled trigger), whatever other requests run at the same time.
C5_CriteriaFixed ==
  \A t \in Threads :
    pc[t] \in {"s_fetch", "s_save", "s_latest_open", "s_latest_write"}
      => args[t] = TriggerCriteria(t)

\* The positions of a cycle before its fetch has returned.
BeforeFetch == {"search", "s_min_rooms", "s_max_rent", "s_fetch", "sa_fetch"}

\* C6: a cycle whose provider fetch fails leaves the store untouched: no step
\* of the cycle up to the fetch, and no step of the thread from the failure
\* on, writes a snapshot or changes latest.
C6_FailedFetchLeavesStore ==
  [][\A t \in Threads :
       (pc'[t] # pc[t] /\ (pc[t] \in BeforeFetch \/ outcome'[t] = "fetch_error"))
         => (snapshots' = snapshots /\ latest' = latest)]_vars

\* C6 witness: a cycle has failed in its fetch and returned, after an earlier
\* cycle had persisted a non-empty record, which latest still holds.
C6_Witness ==
  /\ outcome[Main] = "fetch_error" /\ pc[Main] = "w_sleeping"
  /\ Len(snapshots) = 1 /\ snapshots[1] # <<>>
  /\ api_latest = [kind |-> "ok", body |-> snapshots[1]]

\* C7: in worker mode the sleep that follows a failed cycle is the short
\* cooldown of 300 s, not the interval of 7200 s.
C7_FailureCoolsDown ==
  (mode = "worker" /\ pc[Main] = "w_sleeping" /\ outcome[Main] \in Failed)
    => sleep = WORKER_ERROR_SLEEP

C9_LoopSurvives == mode \in LoopModes => alive

\* C10: an on-demand request that arrives while a search cycle is running is
\* answered at once (with the previous latest record): the handler does not
\* go on to a cycle of its own.
C10_MidCycleRequestAnswered ==
  [][\A t \in Threads :
       ((\E mr \in RentArgs : api_search_max_rent(t, mr))
          /\ \E u \in Threads \ {t} : InCycle(u))
         => (pc'[t] = "idle" /\ cycles' = cycles)]_vars


\* C11: in scheduler mode a trigger that became due while a cycle was running,
\* or that is due at the same tick as the trigger of that cycle, is dropped:
\* no job is run for a trigger that was already due when the previous cycle
\* returned.
C11_OverlappingTriggersDropped ==
  [][(run_scheduler_run_job(Main) /\ cycles >= 1)
       => next_run[Head(runnable)] > lastEnd]_vars


\* C12: a failure of notification delivery is absorbed: the snapshot the cycle
\* persisted before the delivery stays persisted, and the error is swallowed,
\* so that the cycle completes and returns its results.
C12_DeliveryErrorAbsorbed ==
  \A t \in Threads :
    outcome[t] = "notify_error"
      => /\ snapshots # <<>> /\ snapshots[Len(snapshots)] = results[t]
         /\ ~raised[t]
         /\ alive


\* C13: a process that runs a single search and exits (once mode, and the
\* action search of run.py) ends with a non-zero status when the provider
\* fetch failed and with status zero when the search succeeded.
C13_OnceExitStatus ==
  (mode \in {"once", "search"} /\ pc[Main] = "exited")
    => /\ outcome[Main] = "fetch_error" => exit_status # 0
       /\ outcome[Main] = "ok" => exit_status = 0


\* C14: the temporary override of /api/search is always undone: whenever no
\* /api/search request is in flight, self.config equals the configuration
\* loaded at startup.
C14_OverrideUndone ==
  (mode = "web" /\ \A t \in Threads : pc[t] = "idle")
    => config = StartupConfig


\* The hours at which the claim expects a trigger.
ExpectedHours ==
  {h \in 0..MaxHour :
     /\ env.start_hour <= h /\ h < env.end_hour
     /\ (h - env.start_hour) % env.interval = 0}

\* The number of jobs registered at hour h.
TriggersAt(h) ==
  Cardinality({i \in 1..Len(registered) : ParseHour(registered[i]) = h})

\* C15: once the schedule action has registered its jobs, there is exactly one
\* daily trigger at every hour h with start_hour <= h < end_hour and
\* (h - start_hour) a multiple of interval, and no trigger at any other hour
\* (none at end_hour, none outside the window, none at all when
\* start_hour >= end_hour).
C15_RegisteredHours ==
  (mode = "schedule" /\ pc[Main] # "register")
    => /\ \A h \in ExpectedHours : TriggersAt(h) = 1
       /\ \A i \in 1..Len(registered) : ParseHour(registered[i]) \in ExpectedHours

\* C15 witness: the registration is over for a window whose last step stops
\* short of end_hour, with more than one trigger registered.
C15_Witness ==
  /\ mode = "schedule" /\ pc[Main] = "run_pending"
  /\ env.interval > 1
  /\ (env.end_hour - env.start_hour) % env.interval = 0
  /\ Len(registered) > 1
  /\ TriggersAt(env.end_hour) = 0

====
